---- MODULE Spec2Model ----
(***************************************************************************)
(* Directory & Insights query layer of the WhatsApp MCP server             *)
(* (whatsapp-mcp-server/contacts.py).                                      *)
(*                                                                         *)
(* The store is the SQLite database messages.db.  Every operation opens    *)
(* its own connection, runs one or two statements and closes the           *)
(* connection in its finally clause.  Each action below is one whole       *)
(* call of one tool of main.py and of the function of contacts.py behind   *)
(* it; `call` records the call and its inputs, `ret` what the function of  *)
(* contacts.py handed back to the tool, and `tool_result` what the tool    *)
(* handed to its client.                                                   *)
(*                                                                         *)
(* Values.  A jid is <<"c", i>> (a contact, "...@s.whatsapp.net") or       *)
(* <<"g", i>> (a group, "...@g.us").  Timestamps are naturals, compared    *)
(* as the store compares them.  SQL NULL is the value NULL; a comparison   *)
(* with NULL is never true in a WHERE clause.  Keywords are naturals       *)
(* 1..MaxKeyword in collation order; the argument 0 stands for a Python    *)
(* str that holds a lone surrogate (such as "\ud800"), which the sqlite3   *)
(* module cannot encode as UTF-8 when it binds the parameter.              *)
(*                                                                         *)
(* Columns that no query orders or filters by (names, counters, notes,     *)
(* the contact_insights columns) are projected away.                       *)
(***************************************************************************)
EXTENDS Integers, Sequences, FiniteSets, TLC

VARIABLES contacts, conversation_metrics, groups, group_members,
          conversation_topics, interesting_topics, topic_alerts, chats,
          open_conns, call, ret, tool_result, running

vars == <<contacts, conversation_metrics, groups, group_members,
          conversation_topics, interesting_topics, topic_alerts, chats,
          open_conns, call, ret, tool_result, running>>

store == <<contacts, conversation_metrics, groups, group_members,
           conversation_topics, interesting_topics, topic_alerts, chats>>

(* ------------------------------ bounds ------------------------------- *)

MaxContacts == 2

MaxGroups == 2

MaxMembers == 2

MaxDate == 2

MaxLimit == 2

MaxOffset == 2

MaxDays == 1

MaxKeyword == 2

MaxImportance == 2

MaxMentions == 2

MaxPattern == 1

MaxAlerts == 2

MaxTopics == 2

MaxThreads == 2

(* ------------------------------ values ------------------------------- *)

\* SQL NULL.  SQLite orders NULL before every other value; a comparison
\* with NULL in a WHERE clause is not true.
NULL == -1

\* What a call hands back: a list of rows, one row as a dict, None, or an
\* exception that leaves the function.
List(rows) == [kind |-> "list", rows |-> rows]

Dict(row) == [kind |-> "dict", value |-> row]

None == [kind |-> "None"]

Raised(exc) == [kind |-> "raised", exc |-> exc]

ContactJids == {<<"c", i>> : i \in 1..MaxContacts}

GroupJids == {<<"g", i>> : i \in 1..MaxGroups}

Dates == 1..MaxDate

Keywords == 1..MaxKeyword

KeywordArgs == 0..MaxKeyword

Bits == {0, 1}

Min(a, b) == IF a < b THEN a ELSE b

Range(s) == {s[i] : i \in 1..Len(s)}

SeqsUpTo(S, n) == UNION {[1..m -> S] : m \in 0..n}

NoDup(s) == \A i, j \in 1..Len(s) : i # j => s[i] # s[j]

(* --------------------------- SQL primitives --------------------------- *)

\* The pairs of rows an ORDER BY clause compares.
Pairs(rows) == Range(rows) \X Range(rows)

\* ORDER BY: a stable sort of the scanned rows under a strict order, given
\* as the set of pairs <<a, b>> of rows with a before b; rows with equal
\* keys keep their scan order.
OrderBy(rows, before) ==
    LET n == Len(rows)
        Lt(a, b) == <<a, b>> \in before
        pos(i) == Cardinality({j \in 1..n : Lt(rows[j], rows[i])})
                  + Cardinality({j \in 1..(i - 1) :
                        ~Lt(rows[i], rows[j]) /\ ~Lt(rows[j], rows[i])})
                  + 1
    IN [p \in 1..n |-> rows[CHOOSE i \in 1..n : pos(i) = p]]

\* WHERE over a sequence of scanned rows, keeping scan order.
RECURSIVE Where(_, _)
Where(rows, keep) ==
    IF rows = <<>> THEN <<>>
    ELSE IF Head(rows) \in keep
         THEN <<Head(rows)>> \o Where(Tail(rows), keep)
         ELSE Where(Tail(rows), keep)

\* LIMIT ? OFFSET ? with the offset taken as a page number.
LimitOffsetByPage(rows, limit, offset) ==
    LET off == IF offset < 0 THEN 0 ELSE offset * (IF limit < 0 THEN 0 ELSE limit)
        end == IF limit < 0 THEN Len(rows) ELSE Min(Len(rows), off + limit)
    IN SubSeq(rows, off + 1, end)

\* LIMIT ? OFFSET ?: a negative LIMIT is no limit, a negative OFFSET is 0.
LimitOffset(rows, limit, offset) ==
    LET off == IF offset < 0 THEN 0 ELSE offset
        end == IF limit < 0 THEN Len(rows) ELSE Min(Len(rows), off + limit)
    IN SubSeq(rows, off + 1, end)

\* ORDER BY x DESC NULLS FIRST
DescNullsFirst(x, y) ==
    IF y = NULL THEN FALSE
    ELSE IF x = NULL THEN TRUE
    ELSE x > y

\* ORDER BY x DESC NULLS LAST: does x come strictly before y
DescNullsLast(x, y) ==
    IF x = NULL THEN FALSE
    ELSE IF y = NULL THEN TRUE
    ELSE x > y

\* The chat_jid values of conversation_metrics.
MetricJids == {conversation_metrics[i].chat_jid : i \in 1..Len(conversation_metrics)}

\* cm.last_message_date of the LEFT JOINed conversation_metrics row.
LastMessageDate(jid) ==
    IF jid \in MetricJids
    THEN LET i == CHOOSE j \in 1..Len(conversation_metrics) :
                      conversation_metrics[j].chat_jid = jid
         IN conversation_metrics[i].last_message_date
    ELSE NULL

(* ------------------------------ failures ------------------------------ *)

\* Where a call meets sqlite3.Error: nowhere, in sqlite3.connect, in the
\* first cursor.execute, in the membership cursor.execute of the group
\* readers, or in conn.commit.  For a statement with a free-text parameter
\* of the caller, "prepare" is a failure before the parameters are bound (the
\* table is missing, the file is not a database) and "execute" one when the
\* statement runs (the database is locked, the disk is full).
ReadFails == {"none", "connect", "execute"}

TextFails == {"none", "connect", "prepare", "execute"}

GroupFails == {"none", "connect", "execute", "members"}

WriteFails == {"none", "connect", "prepare", "execute", "commit"}

\* finally: if 'conn' in locals(): conn.close().  The name conn is bound
\* exactly when sqlite3.connect returned, so every connection that was
\* opened is closed and none is closed that was not opened.
Acquired(fail) == IF fail = "connect" THEN 0 ELSE 1

\* conn.close() as the last statement of the try body instead of in finally.
ReleasedOnSuccess(fail) == IF fail = "none" THEN 1 ELSE 0

Released(fail) == IF fail = "connect" THEN 0 ELSE 1

(* --------------------------- Contact Reader --------------------------- *)

\* One row of contacts c LEFT JOIN conversation_metrics cm ON c.jid = cm.chat_jid.
ContactRow(jid) == [jid |-> jid, last_message_date |-> LastMessageDate(jid)]

ContactsJoined == [i \in 1..Len(contacts) |-> ContactRow(contacts[i])]

ByLastMessageDesc(a, b) == DescNullsLast(a.last_message_date, b.last_message_date)

\* The full joined result of get_all_contacts, before LIMIT/OFFSET.
ContactsOrdered == OrderBy(ContactsJoined,
                           {p \in Pairs(ContactsJoined) : ByLastMessageDesc(p[1], p[2])})

get_all_contacts(limit, offset, fail) ==
    IF fail # "none" THEN List(<<>>)
    ELSE List(LimitOffset(ContactsOrdered, limit, offset))

\* get_contact without its WHERE c.jid = ?: fetchone takes the first row.
get_contact_first_row(jid, fail) ==
    IF fail # "none" THEN None
    ELSE IF ContactsJoined # <<>> THEN Dict(Head(ContactsJoined)) ELSE None

get_contact(jid, fail) ==
    IF fail # "none" THEN None
    ELSE LET found == Where(ContactsJoined, {r \in Range(ContactsJoined) : r.jid = jid})
         IN IF found # <<>> THEN Dict(Head(found)) ELSE None

(* ------------------------- Activity Segmenter ------------------------- *)

\* datetime('now'): the store's clock at the call.
Now == MaxDate

\* datetime('now', '-<days> days').  f'-{days}' of a negative days is
\* '--<n>', which SQLite does not accept as a modifier: the value is NULL.
Threshold(days) == IF days < 0 THEN NULL ELSE Now - days

\* The scan of conversation_metrics: SQLite walks the table in rowid
\* order, the order in which the rows were inserted.
MetricsScan == [p \in 1..Len(conversation_metrics) |-> conversation_metrics[p].chat_jid]

\* contacts c JOIN conversation_metrics cm ON c.jid = cm.chat_jid: the rows
\* of conversation_metrics whose chat_jid is the key of a contact.
ContactsWithMetrics ==
    LET scan == [p \in 1..Len(MetricsScan) |-> ContactRow(MetricsScan[p])]
    IN Where(scan, {r \in Range(scan) : r.jid \in Range(contacts)})

ByLastMessageAsc(a, b) == a.last_message_date < b.last_message_date

ByLastMessageDescStrict(a, b) == a.last_message_date > b.last_message_date

get_active_contacts(days, limit, fail) ==
    IF fail # "none" THEN List(<<>>)
    ELSE LET t == Threshold(days)
             rows == ContactsWithMetrics
             kept == Where(rows, {r \in Range(rows) : t # NULL /\ r.last_message_date >= t})
         IN List(LimitOffset(OrderBy(kept,
                                     {p \in Pairs(kept) : ByLastMessageDescStrict(p[1], p[2])}), limit, 0))

get_dormant_contacts(days, limit, fail) ==
    IF fail # "none" THEN List(<<>>)
    ELSE LET t == Threshold(days)
             rows == ContactsWithMetrics
             kept == Where(rows, {r \in Range(rows) : t # NULL /\ r.last_message_date < t})
         IN List(LimitOffset(OrderBy(kept,
                                     {p \in Pairs(kept) : ByLastMessageAsc(p[1], p[2])}), limit, 0))


(* ---------------------------- Group Reader ---------------------------- *)

\* The rows of group_members of one group, in table order.
MembershipsOf(jid) ==
    Where(group_members, {m \in Range(group_members) : m.group_jid = jid})

\* LEFT JOIN group_members gm ON g.jid = gm.group_jid AND gm.left_at IS NULL
ActiveMembershipsOf(jid) ==
    Where(group_members,
          {m \in Range(group_members) : m.group_jid = jid /\ m.left_at = NULL})

\* The count with the join to group_members lacking "AND gm.left_at IS NULL".
MemberCountWithDeparted(jid) ==
    Cardinality({m.member_jid : m \in Range(MembershipsOf(jid))})

\* COUNT(DISTINCT gm.member_jid) over the group's joined rows.
CurrentMemberCount(jid) ==
    Cardinality({m.member_jid : m \in Range(ActiveMembershipsOf(jid))})

GroupRow(jid) ==
    [jid |-> jid,
     current_member_count |-> CurrentMemberCount(jid),
     last_message_date |-> LastMessageDate(jid)]

\* GROUP BY g.jid: one row per group, produced in jid order.
GroupsScan ==
    LET keys == {i \in 1..MaxGroups : <<"g", i>> \in groups}
    IN [p \in 1..Cardinality(keys) |->
           GroupRow(<<"g", CHOOSE i \in keys : Cardinality({j \in keys : j < i}) = p - 1>>)]

\* The full grouped result of get_all_groups, before LIMIT/OFFSET.
GroupsOrdered == OrderBy(GroupsScan,
                         {p \in Pairs(GroupsScan) : ByLastMessageDesc(p[1], p[2])})

\* ORDER BY gm.is_super_admin DESC, gm.is_admin DESC, gm.joined_at ASC
ByRoleThenJoin(a, b) ==
    \/ a.is_super_admin > b.is_super_admin
    \/ /\ a.is_super_admin = b.is_super_admin
       /\ \/ a.is_admin > b.is_admin
          \/ /\ a.is_admin = b.is_admin
             /\ a.joined_at < b.joined_at

\* gm.left_at IS NULL, as SQLite evaluates it: 1 or 0.
IsNull(x) == IF x = NULL THEN 1 ELSE 0

\* ORDER BY gm.left_at IS NULL (ascending), gm.is_super_admin DESC, ...
ByDepartedThenRoleThenJoin(a, b) ==
    \/ IsNull(a.left_at) < IsNull(b.left_at)
    \/ /\ IsNull(a.left_at) = IsNull(b.left_at)
       /\ ByRoleThenJoin(a, b)

\* ORDER BY gm.left_at IS NULL DESC, gm.is_super_admin DESC, gm.is_admin DESC,
\*          gm.joined_at ASC
ByActiveThenRoleThenJoin(a, b) ==
    \/ IsNull(a.left_at) > IsNull(b.left_at)
    \/ /\ IsNull(a.left_at) = IsNull(b.left_at)
       /\ ByRoleThenJoin(a, b)

\* The member dict of get_all_groups: left_at is not selected.
ListedMember(m) ==
    [member_jid |-> m.member_jid, is_admin |-> m.is_admin,
     is_super_admin |-> m.is_super_admin, joined_at |-> m.joined_at]

\* The member dict of get_group_info.
InfoMember(m) ==
    [member_jid |-> m.member_jid, is_admin |-> m.is_admin,
     is_super_admin |-> m.is_super_admin, joined_at |-> m.joined_at,
     left_at |-> m.left_at]

\* The membership query of get_all_groups without gm.left_at IS NULL.
ListedMembersWithDeparted(jid) ==
    LET rows == OrderBy(MembershipsOf(jid),
                        {p \in Pairs(MembershipsOf(jid)) : ByRoleThenJoin(p[1], p[2])})
    IN [i \in 1..Len(rows) |-> ListedMember(rows[i])]

\* The membership query of get_all_groups for one returned group.
ListedMembers(jid) ==
    LET rows == OrderBy(ActiveMembershipsOf(jid),
                        {p \in Pairs(ActiveMembershipsOf(jid)) : ByRoleThenJoin(p[1], p[2])})
    IN [i \in 1..Len(rows) |-> ListedMember(rows[i])]

\* The membership query of get_group_info.
InfoMembers(jid) ==
    LET rows == OrderBy(MembershipsOf(jid),
                        {p \in Pairs(MembershipsOf(jid)) : ByActiveThenRoleThenJoin(p[1], p[2])})
    IN [i \in 1..Len(rows) |-> InfoMember(rows[i])]

WithMembers(row, members) ==
    [jid |-> row.jid,
     current_member_count |-> row.current_member_count,
     last_message_date |-> row.last_message_date,
     members |-> members]

\* get_all_groups handing back the group rows it fetched when the
\* membership query fails.
get_all_groups_keep_page(include_members, limit, offset, fail) ==
    IF fail \in {"connect", "execute"} THEN List(<<>>)
    ELSE LET page == LimitOffset(GroupsOrdered, limit, offset)
         IN IF ~include_members \/ fail = "members" THEN List(page)
            ELSE List([i \in 1..Len(page) |->
                          WithMembers(page[i], ListedMembers(page[i].jid))])

\* fail = "members": the membership query meets sqlite3.Error the first
\* time it runs; it runs only if include_members and a group row came back.
get_all_groups(include_members, limit, offset, fail) ==
    IF fail \in {"connect", "execute"} THEN List(<<>>)
    ELSE LET page == LimitOffset(GroupsOrdered, limit, offset)
         IN IF ~include_members THEN List(page)
            ELSE IF fail = "members" /\ page # <<>> THEN List(<<>>)
            ELSE List([i \in 1..Len(page) |->
                          WithMembers(page[i], ListedMembers(page[i].jid))])

get_group_info(jid, include_members, fail) ==
    IF fail \in {"connect", "execute"} THEN None
    ELSE LET found == Where(GroupsScan, {r \in Range(GroupsScan) : r.jid = jid})
         IN IF found = <<>> THEN None
            ELSE IF ~include_members THEN Dict(Head(found))
            ELSE IF fail = "members" THEN None
            ELSE Dict(WithMembers(Head(found), InfoMembers(jid)))

(* ---------------------------- Topic Catalog --------------------------- *)

\* The keyword of a mined topic and the keyword argument of
\* get_conversation_topics are sequences of characters; <<>> is the empty
\* string, and an argument that was not given (None).
Lower(c) == IF c = "A" THEN "a" ELSE IF c = "B" THEN "b" ELSE c

\* text LIKE pattern, in SQLite: % matches any run of characters, _ any one
\* character, and ASCII letters match without regard to case.
RECURSIVE Like(_, _)
Like(text, pattern) ==
    IF pattern = <<>> THEN text = <<>>
    ELSE IF Head(pattern) = "%"
         THEN Like(text, Tail(pattern)) \/ (text # <<>> /\ Like(Tail(text), pattern))
         ELSE /\ text # <<>>
              /\ Head(pattern) = "_" \/ Lower(Head(pattern)) = Lower(Head(text))
              /\ Like(Tail(text), Tail(pattern))

\* A str can be bound when none of its characters is a lone surrogate.
Bindable(text) == \A i \in 1..Len(text) : text[i] # "U+D800"

\* ORDER BY ct.importance_score DESC, ct.mention_count DESC
ByScoreThenMentions(a, b) ==
    \/ a.importance_score > b.importance_score
    \/ a.importance_score = b.importance_score /\ a.mention_count > b.mention_count

\* conversation_topics ct JOIN chats c ON ct.chat_jid = c.jid
\* WHERE ct.mention_count >= ? [AND ct.chat_jid = ?] [AND ct.keyword LIKE ?]
\* A filter is added when its argument is truthy; the LIKE parameter is
\* f"%{keyword}%".  fail = "prepare" is sqlite3.Error before the parameters
\* are bound, "execute" when the statement runs.
get_conversation_topics(chat_jid, keyword, limit, min_mentions, fail) ==
    IF fail \in {"connect", "prepare"} THEN List(<<>>)
    ELSE IF ~Bindable(keyword) THEN Raised("UnicodeEncodeError")
    ELSE IF fail = "execute" THEN List(<<>>)
    ELSE LET kept == Where(conversation_topics,
                           {t \in Range(conversation_topics) :
                               /\ t.chat_jid \in chats
                               /\ t.mention_count >= min_mentions
                               /\ chat_jid # <<>> => t.chat_jid = chat_jid
                               /\ keyword # <<>> =>
                                      Like(t.keyword, <<"%">> \o keyword \o <<"%">>)})
         IN List(LimitOffset(OrderBy(kept,
                                     {p \in Pairs(kept) : ByScoreThenMentions(p[1], p[2])}), limit, 0))


TrackedKeywords == {t.keyword : t \in Range(interesting_topics)}

\* ORDER BY importance DESC, keyword ASC
ByImportanceThenKeyword(a, b) ==
    \/ a.importance > b.importance
    \/ a.importance = b.importance /\ a.keyword < b.keyword

get_interesting_topics(fail) ==
    IF fail # "none" THEN List(<<>>)
    ELSE List(OrderBy(interesting_topics,
                      {p \in Pairs(interesting_topics) : ByImportanceThenKeyword(p[1], p[2])}))

\* The sqlite3 module encodes a str parameter as UTF-8 when it binds it.
Encodable(keyword) == keyword \in Keywords

\* interesting_topics(keyword UNIQUE): the INSERT is rejected when a row
\* already holds the keyword.
UniqueViolation(keyword) == keyword \in TrackedKeywords

\* How the try block of add_interesting_topic ends.  The statement is
\* prepared, its parameters are bound, it runs, and the transaction is
\* committed; fail names the step that meets sqlite3.Error.
AddOutcome(keyword, fail) ==
    IF fail \in {"connect", "prepare"} THEN "Error"
    ELSE IF ~Encodable(keyword) THEN "UnicodeEncodeError"
    ELSE IF fail = "execute" THEN "Error"
    ELSE IF UniqueViolation(keyword) THEN "IntegrityError"
    ELSE IF fail = "commit" THEN "Error"
    ELSE "committed"

\* cursor.lastrowid of the INSERT: rows are never deleted, so the next rowid
\* is one more than the number of rows.
NextRowId == Len(interesting_topics) + 1

\* add_interesting_topic with the except clauses in the other order: the
\* clause for sqlite3.Error also takes the IntegrityError.
add_interesting_topic_error_first(keyword, importance, fail) ==
    LET outcome == AddOutcome(keyword, fail)
    IN IF outcome = "committed"
       THEN Dict([success |-> TRUE,
                  message |-> [fmt |-> "Added topic: {keyword}", keyword |-> keyword],
                  id |-> NextRowId])
       ELSE IF outcome \in {"IntegrityError", "Error"}
       THEN Dict([success |-> FALSE, message |-> [fmt |-> "Database error: {e}"]])
       ELSE Raised(outcome)

\* The except clauses: IntegrityError, then any other sqlite3.Error; an
\* exception of another class leaves the function.
add_interesting_topic(keyword, importance, fail) ==
    LET outcome == AddOutcome(keyword, fail)
    IN IF outcome = "committed"
       THEN Dict([success |-> TRUE,
                  message |-> [fmt |-> "Added topic: {keyword}", keyword |-> keyword],
                  id |-> NextRowId])
       ELSE IF outcome = "IntegrityError"
       THEN Dict([success |-> FALSE,
                  message |-> [fmt |-> "Topic '{keyword}' already exists",
                               keyword |-> keyword]])
       ELSE IF outcome = "Error"
       THEN Dict([success |-> FALSE, message |-> [fmt |-> "Database error: {e}"]])
       ELSE Raised(outcome)

\* interesting_topics after the call on a connection in autocommit mode: the
\* INSERT stays although conn.commit() failed.
TopicsAfterAddAutocommit(keyword, importance, fail) ==
    IF \/ AddOutcome(keyword, fail) = "committed"
       \/ AddOutcome(keyword, "none") = "committed" /\ fail = "commit"
    THEN Append(interesting_topics,
                [id |-> NextRowId, keyword |-> keyword, importance |-> importance])
    ELSE interesting_topics

\* interesting_topics after the call: the row is there once the commit went
\* through; closing the connection drops an uncommitted INSERT.
TopicsAfterAdd(keyword, importance, fail) ==
    IF AddOutcome(keyword, fail) = "committed"
    THEN Append(interesting_topics,
                [id |-> NextRowId, keyword |-> keyword, importance |-> importance])
    ELSE interesting_topics

(* ---------------------------- Alert Reader ---------------------------- *)

\* it.importance of the interesting_topics row joined by keyword.
TopicImportance(keyword) ==
    (CHOOSE t \in Range(interesting_topics) : t.keyword = keyword).importance

AlertRow(a) ==
    [topic_keyword |-> a.topic_keyword, chat_jid |-> a.chat_jid,
     detected_at |-> a.detected_at, acknowledged |-> a.acknowledged,
     importance |-> TopicImportance(a.topic_keyword)]

\* ORDER BY ta.detected_at DESC
ByDetectedDesc(a, b) == a.detected_at > b.detected_at

\* get_topic_alerts with LEFT JOIN chats: an alert of a missing chat stays.
get_topic_alerts_left_join(acknowledged, limit, fail) ==
    IF fail # "none" THEN List(<<>>)
    ELSE LET flag == IF acknowledged THEN 1 ELSE 0
             kept == Where(topic_alerts,
                           {a \in Range(topic_alerts) :
                               /\ a.topic_keyword \in TrackedKeywords
                               /\ a.acknowledged = flag})
             rows == OrderBy(kept, {p \in Pairs(kept) : ByDetectedDesc(p[1], p[2])})
         IN List(LimitOffset([i \in 1..Len(rows) |-> AlertRow(rows[i])], limit, 0))

\* topic_alerts ta JOIN interesting_topics it ON ta.topic_keyword = it.keyword
\*                 JOIN chats c ON ta.chat_jid = c.jid
\* WHERE ta.acknowledged = ?   with the parameter 1 if acknowledged else 0
get_topic_alerts(acknowledged, limit, fail) ==
    IF fail # "none" THEN List(<<>>)
    ELSE LET flag == IF acknowledged THEN 1 ELSE 0
             kept == Where(topic_alerts,
                           {a \in Range(topic_alerts) :
                               /\ a.topic_keyword \in TrackedKeywords
                               /\ a.chat_jid \in chats
                               /\ a.acknowledged = flag})
             rows == OrderBy(kept, {p \in Pairs(kept) : ByDetectedDesc(p[1], p[2])})
         IN List(LimitOffset([i \in 1..Len(rows) |-> AlertRow(rows[i])], limit, 0))

(* ------------------------------- store -------------------------------- *)

ContactTables == {s \in SeqsUpTo(ContactJids, MaxContacts) : NoDup(s)}

\* conversation_metrics: rows in rowid order, at most one row per chat_jid,
\* last_message_date set.
MetricTables(jids) ==
    UNION {{[i \in 1..Len(k) |-> [chat_jid |-> k[i], last_message_date |-> d[i]]] :
                d \in [1..Len(k) -> Dates]} :
           k \in {q \in SeqsUpTo(jids, Cardinality(jids)) : NoDup(q)}}

\* group_members rows: (group_jid, member_jid) identifies a membership;
\* left_at is NULL while the member is in the group.
Membership(g, c, admin, super, joined, left) ==
    [group_jid |-> g, member_jid |-> c, is_admin |-> admin,
     is_super_admin |-> super, joined_at |-> joined, left_at |-> left]

RosterTables ==
    UNION {{[i \in 1..n |-> Membership(<<"g", 1>>, <<"c", i>>, a[i], s[i], j[i], l[i])] :
                a \in [1..n -> Bits], s \in [1..n -> Bits],
                j \in [1..n -> {1, Now}], l \in [1..n -> {NULL, Now}]} :
           n \in 0..MaxMembers}

OtherMembership == Membership(<<"g", MaxGroups>>, <<"c", 1>>, 1, 1, 1, NULL)

\* interesting_topics: rows in rowid order, no two with the same keyword.
TopicTables ==
    UNION {{[i \in 1..Len(k) |-> [id |-> i, keyword |-> k[i], importance |-> w[i]]] :
                w \in [1..Len(k) -> {1, MaxImportance}]} :
           k \in {q \in SeqsUpTo(Keywords, MaxKeyword) : NoDup(q)}}

\* topic_alerts rows: the topic and the chat are named by key, and nothing
\* keeps the named rows in existence.
AlertTables ==
    SeqsUpTo([topic_keyword : {1, MaxKeyword}, chat_jid : {<<"c", 1>>, <<"c", MaxContacts>>},
              detected_at : {1, Now}, acknowledged : Bits], MaxAlerts)

\* conversation_topics rows: keywords mined from the messages of a chat.
TopicRows ==
    [chat_jid : {<<"c", 1>>, <<"c", MaxContacts>>}, keyword : {<<"a", "b">>, <<"A">>},
     mention_count : {1, MaxMentions}, importance_score : {1}]

NoCall == [op |-> "none"]

\* A store holding contacts and their metrics.
InitContactsStore ==
    /\ contacts \in ContactTables
    /\ conversation_metrics \in MetricTables(ContactJids)
    /\ groups = {}
    /\ group_members = <<>>
    /\ conversation_topics = <<>>
    /\ interesting_topics = <<>>
    /\ topic_alerts = <<>>
    /\ chats = {}

\* A store holding groups and their metrics, no membership recorded yet.
InitGroupsStore ==
    /\ contacts = <<>>
    /\ conversation_metrics \in MetricTables(GroupJids)
    /\ groups \in SUBSET GroupJids
    /\ group_members = <<>>
    /\ conversation_topics = <<>>
    /\ interesting_topics = <<>>
    /\ topic_alerts = <<>>
    /\ chats = {}

\* A store holding one membership of the last group and then the roster of
\* group 1; the i-th row of the roster is the membership of contact i.
InitRosterStore ==
    /\ contacts = <<>>
    /\ conversation_metrics = <<>>
    /\ groups = GroupJids
    /\ \E roster \in RosterTables : group_members = <<OtherMembership>> \o roster
    /\ conversation_topics = <<>>
    /\ interesting_topics = <<>>
    /\ topic_alerts = <<>>
    /\ chats = {}

\* A store holding the rosters, group 1 with or without its metrics row.
InitCountsStore ==
    /\ contacts = <<>>
    /\ conversation_metrics \in
           {<<>>, <<[chat_jid |-> <<"g", 1>>, last_message_date |-> Now]>>}
    /\ groups = GroupJids
    /\ \E roster \in RosterTables : group_members = <<OtherMembership>> \o roster
    /\ conversation_topics = <<>>
    /\ interesting_topics = <<>>
    /\ topic_alerts = <<>>
    /\ chats = {}

\* A store holding tracked topics only.
InitTopicsStore ==
    /\ contacts = <<>>
    /\ conversation_metrics = <<>>
    /\ groups = {}
    /\ group_members = <<>>
    /\ conversation_topics = <<>>
    /\ interesting_topics \in TopicTables
    /\ topic_alerts = <<>>
    /\ chats = {}

\* A store holding mined topics of chats that all have their chats row.
InitCatalogStore ==
    /\ contacts = <<>>
    /\ conversation_metrics = <<>>
    /\ groups = {}
    /\ group_members = <<>>
    /\ conversation_topics \in SeqsUpTo(TopicRows, MaxTopics)
    /\ interesting_topics = <<>>
    /\ topic_alerts = <<>>
    /\ chats = ContactJids

\* A store holding alerts; keyword MaxKeyword is not tracked yet and chat
\* MaxContacts is not a row of chats.
InitAlertsStore ==
    /\ contacts = <<>>
    /\ conversation_metrics = <<>>
    /\ groups = {}
    /\ group_members = <<>>
    /\ conversation_topics = <<>>
    /\ interesting_topics =
           [i \in 1..(MaxKeyword - 1) |-> [id |-> i, keyword |-> i, importance |-> 1]]
    /\ topic_alerts \in AlertTables
    /\ chats = ContactJids \ {<<"c", MaxContacts>>}

\* A store in which every table holds rows: two memberships of group 1 (one
\* departed), an alert of a tracked topic and one of a topic that is not
\* tracked, in a chat that is not a row of chats.
InitSampleStore ==
    /\ contacts = [i \in 1..MaxContacts |-> <<"c", i>>]
    /\ conversation_metrics =
           <<[chat_jid |-> <<"c", 1>>, last_message_date |-> 1],
             [chat_jid |-> <<"g", 1>>, last_message_date |-> Now]>>
    /\ groups = GroupJids
    /\ group_members =
           <<OtherMembership,
             Membership(<<"g", 1>>, <<"c", 1>>, 1, 0, 1, NULL),
             Membership(<<"g", 1>>, <<"c", MaxContacts>>, 0, 0, 1, Now)>>
    /\ conversation_topics =
           <<[chat_jid |-> <<"c", 1>>, keyword |-> <<"a", "b">>, mention_count |-> 1,
              importance_score |-> 1],
             [chat_jid |-> <<"c", 1>>, keyword |-> <<"A">>, mention_count |-> MaxMentions,
              importance_score |-> 1],
             [chat_jid |-> <<"c", MaxContacts>>, keyword |-> <<"a">>,
              mention_count |-> MaxMentions, importance_score |-> 1]>>
    /\ interesting_topics \in {<<>>, <<[id |-> 1, keyword |-> 1, importance |-> 1]>>}
    /\ topic_alerts =
           <<[topic_keyword |-> 1, chat_jid |-> <<"c", 1>>, detected_at |-> 1,
              acknowledged |-> 0],
             [topic_keyword |-> MaxKeyword, chat_jid |-> <<"c", MaxContacts>>,
              detected_at |-> Now, acknowledged |-> 0]>>
    /\ chats = ContactJids \ {<<"c", MaxContacts>>}

Idle ==
    /\ open_conns = 0
    /\ call = NoCall
    /\ ret = None
    /\ tool_result = None
    /\ running = <<>>

Init == InitSampleStore /\ Idle

\* The sample store with a topic tracked already.
InitCore == InitSampleStore /\ interesting_topics # <<>> /\ Idle

InitContacts == InitContactsStore /\ Idle

InitListing == (InitContactsStore \/ InitGroupsStore) /\ Idle

InitGroups == (InitGroupsStore \/ InitRosterStore) /\ Idle

InitTopics == InitTopicsStore /\ Idle

InitAlerts == InitAlertsStore /\ Idle

InitCatalog == InitCatalogStore /\ Idle

InitCounts == InitCountsStore /\ Idle

(* ------------------------------- tools -------------------------------- *)

\* return contact if contact else {"error": "Contact not found"}
get_contact_details(contact) ==
    IF contact.kind = "None" THEN Dict([error |-> "Contact not found"]) ELSE contact

\* return group if group else {"error": "Group not found"}
get_group_details(group) ==
    IF group.kind = "None" THEN Dict([error |-> "Group not found"]) ELSE group

\* What the tool in front of a function of contacts.py hands to its client:
\* the tools of the two get functions turn None into an error dict, the
\* other tools pass the value on; an exception passes through every tool.
ToolResult(op, r) ==
    IF op = "get_contact" THEN get_contact_details(r)
    ELSE IF op = "get_group_info" THEN get_group_details(r)
    ELSE r

(* ------------------------------ actions ------------------------------- *)

\* The server is single-threaded and synchronous: a call starts when no
\* result is waiting to be handed to the caller.  The tool calls its
\* function of contacts.py and returns what it makes of the value.
Returns(c, r, fail) ==
    /\ call = NoCall
    /\ call' = c
    /\ ret' = r
    /\ tool_result' = ToolResult(c.op, r)
    /\ open_conns' = open_conns + Acquired(fail) - Released(fail)
    /\ UNCHANGED running

ListContacts ==
    \E limit \in 0..MaxLimit, offset \in 0..MaxOffset, fail \in ReadFails :
        /\ Returns([op |-> "get_all_contacts", limit |-> limit, offset |-> offset,
                    fail |-> fail],
                   get_all_contacts(limit, offset, fail), fail)
        /\ UNCHANGED store

GetContact ==
    \E jid \in ContactJids, fail \in ReadFails :
        /\ Returns([op |-> "get_contact", jid |-> jid, fail |-> fail],
                   get_contact(jid, fail), fail)
        /\ UNCHANGED store

ListActiveContacts ==
    \E days \in (-1)..MaxDays, limit \in 0..MaxLimit, fail \in ReadFails :
        /\ Returns([op |-> "get_active_contacts", days |-> days, limit |-> limit,
                    fail |-> fail],
                   get_active_contacts(days, limit, fail), fail)
        /\ UNCHANGED store

ListDormantContacts ==
    \E days \in (-1)..MaxDays, limit \in 0..MaxLimit, fail \in ReadFails :
        /\ Returns([op |-> "get_dormant_contacts", days |-> days, limit |-> limit,
                    fail |-> fail],
                   get_dormant_contacts(days, limit, fail), fail)
        /\ UNCHANGED store

\* The tool wrapper hands the result to the calling agent; the server is
\* ready for the next call.
Reply ==
    /\ call # NoCall
    /\ call' = NoCall
    /\ ret' = None
    /\ tool_result' = None
    /\ UNCHANGED <<store, open_conns, running>>

ListGroups ==
    \E include_members \in BOOLEAN, limit \in 0..MaxLimit, offset \in 0..MaxOffset,
       fail \in GroupFails :
        /\ Returns([op |-> "get_all_groups", include_members |-> include_members,
                    limit |-> limit, offset |-> offset, fail |-> fail],
                   get_all_groups(include_members, limit, offset, fail), fail)
        /\ UNCHANGED store

GetGroupInfo ==
    \E jid \in GroupJids, include_members \in BOOLEAN, fail \in GroupFails :
        /\ Returns([op |-> "get_group_info", jid |-> jid,
                    include_members |-> include_members, fail |-> fail],
                   get_group_info(jid, include_members, fail), fail)
        /\ UNCHANGED store

\* The characters of a keyword argument, and the arguments themselves.
PatternChars == {"a", "B", "_", "%", "U+D800"}

KeywordPatterns == SeqsUpTo(PatternChars, MaxPattern)

ListTopics ==
    \E chat_jid \in {<<>>, <<"c", 1>>, <<"c", MaxContacts>>}, keyword \in KeywordPatterns,
       limit \in 0..MaxLimit, min_mentions \in 1..MaxMentions, fail \in TextFails :
        /\ Returns([op |-> "get_conversation_topics", chat_jid |-> chat_jid,
                    keyword |-> keyword, limit |-> limit,
                    min_mentions |-> min_mentions, fail |-> fail],
                   get_conversation_topics(chat_jid, keyword, limit, min_mentions, fail),
                   fail)
        /\ UNCHANGED store

ListTrackedTopics ==
    \E fail \in ReadFails :
        /\ Returns([op |-> "get_interesting_topics", fail |-> fail],
                   get_interesting_topics(fail), fail)
        /\ UNCHANGED store

AddTrackedTopic ==
    \E keyword \in KeywordArgs, importance \in {1, MaxImportance}, fail \in WriteFails :
        /\ Returns([op |-> "add_interesting_topic", keyword |-> keyword,
                    importance |-> importance, fail |-> fail],
                   add_interesting_topic(keyword, importance, fail), fail)
        /\ interesting_topics' = TopicsAfterAdd(keyword, importance, fail)
        /\ UNCHANGED <<contacts, conversation_metrics, groups, group_members,
                       conversation_topics, topic_alerts, chats>>

ListTopicAlerts ==
    \E acknowledged \in BOOLEAN, limit \in 0..MaxLimit, fail \in ReadFails :
        /\ Returns([op |-> "get_topic_alerts", acknowledged |-> acknowledged,
                    limit |-> limit, fail |-> fail],
                   get_topic_alerts(acknowledged, limit, fail), fail)
        /\ UNCHANGED store

Next ==
    \/ ListContacts
    \/ GetContact
    \/ ListActiveContacts
    \/ ListDormantContacts
    \/ ListGroups
    \/ GetGroupInfo
    \/ ListTopics
    \/ ListTrackedTopics
    \/ AddTrackedTopic
    \/ ListTopicAlerts
    \/ Reply

\* Every operation, on the sample store.
Spec == Init /\ [][Next]_vars

\* Every operation, on the sample store that tracks a topic.
SpecCore == InitCore /\ [][Next]_vars

\* Every reading operation, on the sample store.
NextReaders ==
    \/ ListContacts
    \/ GetContact
    \/ ListActiveContacts
    \/ ListDormantContacts
    \/ ListGroups
    \/ GetGroupInfo
    \/ ListTopics
    \/ ListTrackedTopics
    \/ ListTopicAlerts
    \/ Reply

SpecReaders == Init /\ [][NextReaders]_vars

\* The Contact Reader and the Activity Segmenter, on stores of contacts.
NextContacts ==
    \/ ListContacts
    \/ GetContact
    \/ ListActiveContacts
    \/ ListDormantContacts
    \/ Reply

SpecContacts == InitContacts /\ [][NextContacts]_vars

\* The two paged listings, on stores of contacts and stores of groups.
NextListing ==
    \/ ListContacts
    \/ ListGroups
    \/ Reply

SpecListing == InitListing /\ [][NextListing]_vars

\* The Group Reader, on stores of groups and rosters.
NextGroups ==
    \/ ListGroups
    \/ GetGroupInfo
    \/ Reply

SpecGroups == InitGroups /\ [][NextGroups]_vars

\* The Topic Catalog's tracked topics.
NextTopics ==
    \/ AddTrackedTopic
    \/ ListTrackedTopics
    \/ Reply

SpecTopics == InitTopics /\ [][NextTopics]_vars

\* The Alert Reader, with topics being added.
NextAlerts ==
    \/ ListTopicAlerts
    \/ AddTrackedTopic
    \/ Reply

SpecAlerts == InitAlerts /\ [][NextAlerts]_vars

\* The Group Reader, on rosters of groups with and without metrics.
SpecCounts == InitCounts /\ [][NextGroups]_vars

\* The Topic Catalog's mined topics.
NextCatalog ==
    \/ ListTopics
    \/ Reply

SpecCatalog == InitCatalog /\ [][NextCatalog]_vars

(* ------------------- concurrent add_interesting_topic ------------------ *)

\* Callers of add_interesting_topic that run at the same time (server
\* processes on one messages.db, or threads of one).  Each has its own
\* connection; they share the database file only.  running[t] is the call
\* of caller t: where it stands, its keyword, whether the keyword was
\* tracked when the call began, whether its connection holds the write
\* lock, the value its return statement has computed (or the exception on
\* its way out) while finally has yet to run, and the result its caller has.
Threads == 1..MaxThreads

Thread(pc, keyword, present, lock, returning, result) ==
    [pc |-> pc, keyword |-> keyword, present |-> present, lock |-> lock,
     returning |-> returning, ret |-> result]

NotCalled == Thread("idle", 0, FALSE, FALSE, None, None)

\* SQLite lets one connection write at a time: a connection holds the write
\* lock of the file from the statement that starts writing to the end of
\* its transaction, which is its COMMIT or, without one, its close.
WriteLockHeld(t) == \E u \in Threads \ {t} : running[u].lock

\* conn = sqlite3.connect(MESSAGES_DB_PATH).  When it fails no connection
\* exists, finally has nothing to close and the error dict is returned.
AddConnects(t) ==
    \E keyword \in KeywordArgs, fail \in {"none", "connect"} :
        /\ running[t].pc = "idle"
        /\ running' =
               [running EXCEPT ![t] =
                   IF fail = "connect"
                   THEN Thread("done", keyword, keyword \in TrackedKeywords, FALSE,
                               None, add_interesting_topic(keyword, 1, fail))
                   ELSE Thread("insert", keyword, keyword \in TrackedKeywords, FALSE,
                               None, None)]
        /\ open_conns' = open_conns + Acquired(fail)
        /\ UNCHANGED <<store, call, ret, tool_result>>

\* cursor.execute(INSERT ...): the keyword is bound, the write lock is
\* taken and the row is checked against the committed rows.  While another
\* connection holds the write lock the statement ends in
\* sqlite3.OperationalError (database is locked).  A statement turned down
\* by the UNIQUE constraint leaves its transaction open, and with it the
\* write lock; a statement that fails otherwise while it runs may have
\* taken the lock or not.  A call that does not go on to commit is on its
\* way out with the dict of its except clause, or with the exception.
AddInserts(t) ==
    \E fail \in {"none", "prepare", "execute"}, holds \in BOOLEAN :
        LET keyword == running[t].keyword
            met == IF fail = "none" /\ WriteLockHeld(t) THEN "execute" ELSE fail
            outcome == AddOutcome(keyword, met)
            inserted == outcome = "committed"
            lock == \/ inserted
                    \/ outcome = "IntegrityError"
                    \/ outcome = "Error" /\ met = "execute" /\ holds
        IN /\ running[t].pc = "insert"
           /\ holds => (fail = "execute" /\ ~WriteLockHeld(t))
           /\ running' =
                  [running EXCEPT ![t] =
                      IF inserted
                      THEN Thread("commit", keyword, running[t].present, TRUE, None, None)
                      ELSE Thread("closing", keyword, running[t].present, lock,
                                  add_interesting_topic(keyword, 1, met), None)]
           /\ UNCHANGED <<store, open_conns, call, ret, tool_result>>

\* conn.commit() and the return statement after it.  A commit that goes
\* through publishes the row and ends the transaction; one that fails
\* leaves the transaction open until the connection is closed.
AddCommits(t) ==
    \E fail \in {"none", "commit"} :
        LET keyword == running[t].keyword
        IN /\ running[t].pc = "commit"
           /\ running' =
                  [running EXCEPT ![t] =
                      Thread("closing", keyword, running[t].present, fail = "commit",
                             add_interesting_topic(keyword, 1, fail), None)]
           /\ interesting_topics' = TopicsAfterAdd(keyword, 1, fail)
           /\ UNCHANGED <<contacts, conversation_metrics, groups, group_members,
                          conversation_topics, topic_alerts, chats, open_conns, call,
                          ret, tool_result>>

\* finally: conn.close(), which drops a transaction that is still open, and
\* the caller has the result.
AddCloses(t) ==
    /\ running[t].pc = "closing"
    /\ running' =
           [running EXCEPT ![t] =
               Thread("done", running[t].keyword, running[t].present, FALSE, None,
                      running[t].returning)]
    /\ open_conns' = open_conns - Released("none")
    /\ UNCHANGED <<store, call, ret, tool_result>>

InitConcurrent ==
    /\ InitTopicsStore
    /\ open_conns = 0
    /\ call = NoCall
    /\ ret = None
    /\ tool_result = None
    /\ running = [t \in Threads |-> NotCalled]

NextConcurrent ==
    \/ \E t \in Threads : AddConnects(t)
    \/ \E t \in Threads : AddInserts(t)
    \/ \E t \in Threads : AddCommits(t)
    \/ \E t \in Threads : AddCloses(t)

\* One add_interesting_topic call per caller, in every interleaving.
SpecConcurrent == InitConcurrent /\ [][NextConcurrent]_vars


(* ====================================================================== *)
(*                               Properties                               *)
(* ====================================================================== *)

ListedJids(rows) == {rows[i].jid : i \in 1..Len(rows)}

Max(a, b) == IF a > b THEN a ELSE b

DuplicateMessage == "Topic '{keyword}' already exists"

KeywordsUnique ==
    \A i, j \in 1..Len(interesting_topics) :
        i # j => interesting_topics[i].keyword # interesting_topics[j].keyword

\* The rows that listTrackedTopics returns for a keyword.
TrackedRowsWith(keyword) ==
    LET rows == get_interesting_topics("none").rows
    IN {i \in 1..Len(rows) : rows[i].keyword = keyword}

\* A call of addTrackedTopic with a keyword that is already tracked: it
\* reports failure (as a duplicate, unless the store itself failed), the
\* table is as it was, and the listing holds one row with the keyword.
DuplicateRejected ==
    (/\ call = NoCall
     /\ call'.op = "add_interesting_topic"
     /\ call'.keyword \in TrackedKeywords)
    => /\ ret'.kind = "dict"
       /\ ret'.value.success = FALSE
       /\ call'.fail = "none" => ret'.value.message.fmt = DuplicateMessage
       /\ interesting_topics' = interesting_topics
       /\ \A k \in Keywords :
              call'.keyword = k => (Cardinality(TrackedRowsWith(k)) = 1)'

\* C1: interesting_topics never holds two rows with one keyword; adding a
\* keyword that is already tracked returns success = false with the
\* "already exists" message, adds no row, and listTrackedTopics then holds
\* exactly one row with that keyword.
C1_OneRowPerKeyword == [](KeywordsUnique) /\ [][DuplicateRejected]_vars

\* C1's case: a second add of a tracked keyword was answered as a duplicate.
C1_Witness ==
    /\ call.op = "add_interesting_topic"
    /\ call.fail = "none"
    /\ ret.kind = "dict"
    /\ ret.value.success = FALSE
    /\ ret.value.message.fmt = DuplicateMessage
    /\ Cardinality(TrackedRowsWith(call.keyword)) = 1
    /\ Len(interesting_topics) = MaxKeyword

\* The store fails before the INSERT gets to check the keyword.
StoreFailsBeforeInsert(fail) == fail \in {"connect", "prepare", "execute"}

\* What addTrackedTopic owes its caller in one call: a result dict with a
\* success flag and a message; the duplicate message exactly when the INSERT
\* meets a keyword that was already tracked, the storage-error message
\* exactly when the store fails, success otherwise.
StructuredResult ==
    (call = NoCall /\ call'.op = "add_interesting_topic")
    => /\ ret'.kind = "dict"
       /\ ret'.value.success \in BOOLEAN
       /\ ret'.value.message.fmt \in
              {"Added topic: {keyword}", DuplicateMessage, "Database error: {e}"}
       /\ ret'.value.message.fmt = DuplicateMessage <=>
              (call'.keyword \in TrackedKeywords /\ ~StoreFailsBeforeInsert(call'.fail))
       /\ ret'.value.message.fmt = "Database error: {e}" <=>
              \/ StoreFailsBeforeInsert(call'.fail)
              \/ call'.fail = "commit" /\ call'.keyword \notin TrackedKeywords
       /\ ret'.value.success <=> ret'.value.message.fmt = "Added topic: {keyword}"

\* C10: addTrackedTopic always returns a result with a success flag and a
\* message and never raises; it reports the duplicate outcome exactly when
\* the keyword is already tracked and the storage-error outcome for every
\* other failure.
C10_AlwaysStructured == [][StructuredResult]_vars


\* The jids that have a row in conversation_metrics and one in contacts.
ContactsHavingMetrics == Range(contacts) \cap MetricJids

\* The answer of one segment call next to the answer of the other segment
\* for the same days, on the same store at the same time: together they
\* hold every contact with metrics, and they share none.
SegmentsPartition ==
    (/\ call.op \in {"get_active_contacts", "get_dormant_contacts"}
     /\ call.fail = "none"
     /\ call.limit >= Len(contacts))
    => LET active == ListedJids(get_active_contacts(call.days, call.limit, "none").rows)
           dormant == ListedJids(get_dormant_contacts(call.days, call.limit, "none").rows)
           mine == ListedJids(ret.rows)
       IN /\ mine = IF call.op = "get_active_contacts" THEN active ELSE dormant
          /\ active \cap dormant = {}
          /\ active \cup dormant = ContactsHavingMetrics

\* C2: for one days value and one "now", with a limit that does not
\* truncate, listActiveContacts and listDormantContacts are disjoint and
\* together hold exactly the contacts that have a conversation_metrics row.
C2_Partition == SegmentsPartition

\* The partition does hold for every days value that is not negative.
PartitionFromZero ==
    (call.op \in {"get_active_contacts", "get_dormant_contacts"} /\ call.days >= 0)
    => SegmentsPartition


\* The listing a call was made of, in full, and the page the same listing
\* gives at another offset of the same store.
IsListing == call.op \in {"get_all_contacts", "get_all_groups"}

FullListing == IF call.op = "get_all_contacts" THEN ContactsOrdered ELSE GroupsOrdered

Joined == IF call.op = "get_all_contacts" THEN ContactsJoined ELSE GroupsScan

PageAt(limit, offset) ==
    IF call.op = "get_all_contacts"
    THEN get_all_contacts(limit, offset, "none").rows
    ELSE get_all_groups(FALSE, limit, offset, "none").rows

\* The page came back whole: no failure emptied it.
PageServed ==
    /\ IsListing
    /\ call.fail \in {"none", "members"}
    /\ call.op = "get_all_groups" /\ call.fail = "members" =>
           ~call.include_members \/ PageAt(call.limit, call.offset) = <<>>

\* C3: on an unchanged store the pages (limit n, offset k) and (limit n,
\* offset k + n) of listContacts, and of listGroups, share no jid, and one
\* after the other they are records k .. k + 2n - 1 of one ordering.
C3_PagesDisjoint ==
    (PageServed /\ call.limit > 0)
    => LET n == call.limit
           k == call.offset
           next == PageAt(n, k + n)
       IN /\ ListedJids(ret.rows) \cap ListedJids(next) = {}
          /\ Len(ret.rows) <= n
          /\ Len(ret.rows) < n => next = <<>>
          /\ [i \in 1..(Len(ret.rows) + Len(next)) |->
                 IF i <= Len(ret.rows) THEN ret.rows[i].jid
                 ELSE next[i - Len(ret.rows)].jid]
             = [i \in 1..(Min(Len(FullListing), k + 2 * n) - Min(Len(FullListing), k)) |->
                 FullListing[Min(Len(FullListing), k) + i].jid]

\* C3's case: two pages in a row that both hold records.
C3_Witness ==
    /\ PageServed
    /\ call.limit > 0
    /\ ret.rows # <<>>
    /\ PageAt(call.limit, call.offset + call.limit) # <<>>

\* An ordering by last_message_date descending with the records that have
\* none after all the others.
RecentFirst(rows) ==
    \A i, j \in 1..Len(rows) :
        i < j => /\ rows[i].last_message_date = NULL => rows[j].last_message_date = NULL
                 /\ rows[j].last_message_date # NULL =>
                        rows[i].last_message_date >= rows[j].last_message_date

\* C4: listContacts and listGroups return at most limit records, those at
\* positions offset .. offset + limit - 1 of the full joined result in
\* order of last_message_date descending, records without activity last.
C4_PageOfRecentFirst ==
    PageServed
    => LET full == FullListing
           from == Min(Len(full), call.offset)
           count == Min(call.limit, Len(full) - from)
       IN /\ Len(full) = Len(Joined)
          /\ ListedJids(full) = ListedJids(Joined)
          /\ Cardinality(ListedJids(full)) = Len(full)
          /\ RecentFirst(full)
          /\ Len(ret.rows) <= call.limit
          /\ Len(ret.rows) = count
          /\ \A i \in 1..count :
                 /\ ret.rows[i].jid = full[from + i].jid
                 /\ ret.rows[i].last_message_date = LastMessageDate(ret.rows[i].jid)

\* C4's case: a page that starts past a record with activity and holds a
\* record without.
C4_Witness ==
    /\ PageServed
    /\ call.offset > 0
    /\ call.limit > 0
    /\ Len(ret.rows) > 0
    /\ FullListing[1].last_message_date # NULL
    /\ ret.rows[Len(ret.rows)].last_message_date = NULL

\* C5: getContact of a jid that listContacts returns gives a record with
\* that jid; getContact of a jid that is the key of no contacts row gives
\* nothing.
C5_GetMatchesList ==
    /\ (call.op = "get_all_contacts" /\ call.fail = "none")
       => \A i \in 1..Len(ret.rows) :
              LET got == get_contact(ret.rows[i].jid, "none")
              IN got.kind = "dict" /\ got.value.jid = ret.rows[i].jid
    /\ (call.op = "get_contact" /\ call.fail = "none")
       => IF call.jid \in ListedJids(get_all_contacts(Len(contacts), 0, "none").rows)
          THEN ret.kind = "dict" /\ ret.value.jid = call.jid
          ELSE call.jid \notin Range(contacts) /\ ret = None

\* C5's case: a contact that listContacts lists in second place was looked up.
C5_Witness ==
    /\ call.op = "get_contact"
    /\ call.fail = "none"
    /\ ret.kind = "dict"
    /\ Len(contacts) > 1
    /\ get_all_contacts(Len(contacts), 0, "none").rows[2].jid = call.jid

\* The order of a roster: super-admins, then admins, then by joined_at.
RoleOrder(a, b) ==
    \/ a.is_super_admin > b.is_super_admin
    \/ /\ a.is_super_admin = b.is_super_admin
       /\ \/ a.is_admin > b.is_admin
          \/ a.is_admin = b.is_admin /\ a.joined_at <= b.joined_at

Memberships(jid, activeOnly) ==
    {m \in Range(group_members) :
        m.group_jid = jid /\ (activeOnly => m.left_at = NULL)}

\* C6: listGroups(includeMembers = true) gives each returned group exactly
\* its memberships with left_at null, super-admins first, then admins, then
\* by ascending joined_at.
C6_ListedRoster ==
    (call.op = "get_all_groups" /\ call.include_members /\ call.fail = "none")
    => \A g \in 1..Len(ret.rows) :
           LET members == ret.rows[g].members
               active == Memberships(ret.rows[g].jid, TRUE)
           IN /\ Range(members) = {ListedMember(m) : m \in active}
              /\ Len(members) = Cardinality(active)
              /\ \A i, j \in 1..Len(members) : i < j => RoleOrder(members[i], members[j])

\* C6's case: a plain admin who joined first is listed after a super-admin.
C6_Witness ==
    /\ call.op = "get_all_groups"
    /\ call.include_members
    /\ call.fail = "none"
    /\ \E g \in 1..Len(ret.rows) :
           LET members == ret.rows[g].members
           IN /\ Len(members) > 1
              /\ members[1].is_super_admin = 1
              /\ members[2].is_super_admin = 0
              /\ members[2].is_admin = 1
              /\ members[2].joined_at < members[1].joined_at

\* C7: getGroupInfo(jid, includeMembers = true) of an existing group gives
\* all its memberships, the active before the departed, each of the two
\* blocks ordered super-admins, admins, ascending joined_at.
C7_InfoRoster ==
    (/\ call.op = "get_group_info"
     /\ call.include_members
     /\ call.fail = "none"
     /\ call.jid \in groups)
    => /\ ret.kind = "dict"
       /\ ret.value.jid = call.jid
       /\ LET members == ret.value.members
              all == Memberships(call.jid, FALSE)
          IN /\ Range(members) = {InfoMember(m) : m \in all}
             /\ Len(members) = Cardinality(all)
             /\ \A i, j \in 1..Len(members) :
                    i < j => /\ members[i].left_at # NULL => members[j].left_at # NULL
                             /\ (members[i].left_at = NULL <=> members[j].left_at = NULL)
                                    => RoleOrder(members[i], members[j])

\* C7's case: an active plain member is listed before a departed super-admin.
C7_Witness ==
    /\ call.op = "get_group_info"
    /\ call.include_members
    /\ call.fail = "none"
    /\ ret.kind = "dict"
    /\ Len(ret.value.members) > 1
    /\ ret.value.members[1].left_at = NULL
    /\ ret.value.members[1].is_super_admin = 0
    /\ ret.value.members[1].is_admin = 0
    /\ ret.value.members[2].left_at # NULL
    /\ ret.value.members[2].is_super_admin = 1

\* C8: listTopicAlerts(acknowledged) returns only alerts with that flag
\* whose topic is a row of interesting_topics and whose chat is a row of
\* chats, in order of detected_at descending.
C8_AlertsJoined ==
    (call.op = "get_topic_alerts" /\ call.fail = "none")
    => /\ \A i \in 1..Len(ret.rows) :
              /\ ret.rows[i].acknowledged = (IF call.acknowledged THEN 1 ELSE 0)
              /\ ret.rows[i].topic_keyword \in TrackedKeywords
              /\ ret.rows[i].chat_jid \in chats
              /\ \E a \in Range(topic_alerts) :
                     /\ a.topic_keyword = ret.rows[i].topic_keyword
                     /\ a.chat_jid = ret.rows[i].chat_jid
                     /\ a.detected_at = ret.rows[i].detected_at
                     /\ a.acknowledged = ret.rows[i].acknowledged
       /\ \A i, j \in 1..Len(ret.rows) :
              i < j => ret.rows[i].detected_at >= ret.rows[j].detected_at
       /\ Len(ret.rows) <= call.limit

\* C8's case: one alert is returned while the limit allows two; the other
\* alert has the flag asked for and names a topic that is not tracked.
C8_Witness ==
    /\ call.op = "get_topic_alerts"
    /\ call.fail = "none"
    /\ call.limit > 1
    /\ Len(ret.rows) = 1
    /\ \E a \in Range(topic_alerts) :
           /\ a.acknowledged = ret.rows[1].acknowledged
           /\ a.topic_keyword \notin TrackedKeywords
           /\ a.chat_jid \in chats


ListOps ==
    {"get_all_contacts", "get_all_groups", "get_conversation_topics",
     "get_active_contacts", "get_dormant_contacts", "get_interesting_topics",
     "get_topic_alerts"}

GetOps == {"get_contact", "get_group_info"}

\* The call met a failure of the store: the connection or the first
\* statement failed, or the membership statement failed once the group rows
\* were there.  (A statement whose parameter cannot be bound never runs.)
StorageFailed ==
    /\ call.op \in ListOps \cup GetOps
    /\ \/ call.fail \in {"connect", "prepare"}
       \/ /\ call.fail = "execute"
          /\ call.op = "get_conversation_topics" => Bindable(call.keyword)
       \/ /\ call.fail = "members"
          /\ call.include_members
          /\ IF call.op = "get_all_groups"
             THEN LimitOffset(GroupsOrdered, call.limit, call.offset) # <<>>
             ELSE call.jid \in groups

\* C9: when the connection or a query fails at the store, a list operation
\* returns the empty sequence and a get operation returns nothing, also
\* when it is the membership query that fails after the group rows were
\* fetched; the failure does not leave the function.
C9_FailuresSwallowed ==
    StorageFailed
    => /\ ret.kind # "raised"
       /\ call.op \in ListOps => ret = List(<<>>)
       /\ call.op \in GetOps => ret = None

\* C9's case: listGroups had fetched group rows when its membership query
\* failed.
C9_Witness ==
    /\ call.op = "get_all_groups"
    /\ call.fail = "members"
    /\ call.include_members
    /\ LimitOffset(GroupsOrdered, call.limit, call.offset) # <<>>
    /\ ret = List(<<>>)


\* C11: every operation that acquired a storage connection has released it
\* when it returns to its caller, whether it succeeded, found nothing or
\* failed in its first query, the membership query, the insert or the
\* commit; after any sequence of completed calls no connection is open.
C11_NoConnectionLeftOpen == open_conns = 0

\* C11's case: getGroupInfo had its connection and the group row when the
\* membership query failed, and it has returned.
C11_Witness ==
    /\ call.op = "get_group_info"
    /\ call.fail = "members"
    /\ StorageFailed
    /\ Acquired(call.fail) = 1
    /\ ret = None
    /\ open_conns = 0


\* The call that just returned is an addTrackedTopic that reported success.
AddSucceeded ==
    /\ call'.op = "add_interesting_topic"
    /\ ret'.kind = "dict"
    /\ ret'.value.success

\* One step of the core, seen from the store: nothing changes, unless the
\* step is an addTrackedTopic that reports success, and that step appends
\* one interesting_topics row with the keyword and importance of the call
\* and changes no other row of any table.
OnlyAddWrites ==
    /\ store' # store => AddSucceeded
    /\ (call = NoCall /\ AddSucceeded) =>
          /\ Len(interesting_topics') = Len(interesting_topics) + 1
          /\ SubSeq(interesting_topics', 1, Len(interesting_topics)) = interesting_topics
          /\ interesting_topics'[Len(interesting_topics')].keyword = call'.keyword
          /\ interesting_topics'[Len(interesting_topics')].importance = call'.importance
          /\ <<contacts, conversation_metrics, groups, group_members,
               conversation_topics, topic_alerts, chats>>'
               = <<contacts, conversation_metrics, groups, group_members,
                   conversation_topics, topic_alerts, chats>>

\* C12: the only step of the core that changes the store is a successful
\* addTrackedTopic, which adds exactly one interesting_topics row and leaves
\* every existing row of every table as it was; every list and get
\* operation and every addTrackedTopic that does not report success leave
\* the whole store unchanged, so a tracked topic is never modified or
\* removed and no alert is created or acknowledged.
C12_OnlyAddWrites == [][OnlyAddWrites]_vars

\* C12's case: an addTrackedTopic reported success on a store that held a
\* tracked topic and alerts; the older topic row is still the first row and
\* the new row is the last.
C12_Witness ==
    /\ call.op = "add_interesting_topic"
    /\ ret.kind = "dict"
    /\ ret.value.success
    /\ Len(interesting_topics) >= 2
    /\ interesting_topics[1] = [id |-> 1, keyword |-> 1, importance |-> 1]
    /\ interesting_topics[Len(interesting_topics)].keyword = call.keyword
    /\ Len(topic_alerts) > 0


\* sub occurs in text as a substring, ASCII letters compared without regard
\* to case (the store's collation for text matching).
Contains(text, sub) ==
    \E i \in 0..(Len(text) - Len(sub)) :
        \A j \in 1..Len(sub) : Lower(text[i + j]) = Lower(sub[j])

\* The conversation_topics rows a listTopics call asks for, in table order.
TopicsMatching(chat_jid, keyword, min_mentions) ==
    Where(conversation_topics,
          {t \in Range(conversation_topics) :
              /\ t.mention_count >= min_mentions
              /\ chat_jid # <<>> => t.chat_jid = chat_jid
              /\ keyword # <<>> => Contains(t.keyword, keyword)})

\* The answer of a listTopics call that met no failure, next to the rows it
\* asked for: only such rows, as many of them as the limit allows, and all
\* of them when no filter is given and the limit does not truncate.
TopicsAnswered ==
    (/\ call.op = "get_conversation_topics"
     /\ call.fail = "none"
     /\ Bindable(call.keyword))
    => LET asked == TopicsMatching(call.chat_jid, call.keyword, call.min_mentions)
       IN /\ ret.kind = "list"
          /\ Range(ret.rows) \subseteq Range(asked)
          /\ Len(ret.rows) = Min(call.limit, Len(asked))
          /\ (/\ call.chat_jid = <<>>
              /\ call.keyword = <<>>
              /\ call.limit >= Len(conversation_topics))
             => Range(ret.rows) =
                    {t \in Range(conversation_topics) :
                        t.mention_count >= call.min_mentions}

\* C13: listTopics returns, up to limit, exactly the conversation_topics
\* rows with mention_count >= minMentions that satisfy each filter given
\* (chat_jid equal to chatJid, keyword containing the given keyword as a
\* substring); with no filter and a limit that does not truncate, every
\* row with mention_count >= minMentions is returned.
C13_TopicsFiltered == TopicsAnswered

\* The keyword argument holds no LIKE wildcard.
Literal(keyword) == \A i \in 1..Len(keyword) : keyword[i] \notin {"%", "_"}

\* The statement does hold for the topics of chats that have a chats row
\* when the keyword holds no wildcard character.
TopicsOfKnownChatsAnswered ==
    (/\ call.op = "get_conversation_topics"
     /\ call.fail = "none"
     /\ Bindable(call.keyword)
     /\ Literal(call.keyword))
    => LET asked == TopicsMatching(call.chat_jid, call.keyword, call.min_mentions)
           known == Where(asked, {t \in Range(asked) : t.chat_jid \in chats})
       IN /\ ret.kind = "list"
          /\ Range(ret.rows) \subseteq Range(known)
          /\ Len(ret.rows) = Min(call.limit, Len(known))


\* The group records in the answer of the call that returned.
GroupRecords ==
    IF call.op = "get_all_groups" /\ ret.kind = "list" THEN Range(ret.rows)
    ELSE IF call.op = "get_group_info" /\ ret.kind = "dict" THEN {ret.value}
    ELSE {}

\* The number of group_members rows of the group whose left_at is null.
ActiveRowCount(jid) ==
    Cardinality({i \in 1..Len(group_members) :
                    /\ group_members[i].group_jid = jid
                    /\ group_members[i].left_at = NULL})

\* C14: in every group record returned by listGroups or getGroupInfo,
\* current_member_count is the number of group_members rows of that group
\* with left_at null: 0 for a group without active membership, and the same
\* whether or not the group has a conversation_metrics row.
C14_CountsActiveRows ==
    \A g \in GroupRecords : g.current_member_count = ActiveRowCount(g.jid)

\* C14's case: a record of a group that has a metrics row, an active
\* member and a departed one was returned.
C14_Witness ==
    \E g \in GroupRecords :
        /\ g.jid \in MetricJids
        /\ g.current_member_count >= 1
        /\ g.current_member_count < Len(MembershipsOf(g.jid))


\* The concurrent calls with keyword k that began while k was not tracked,
\* those of them that have finished, and those that reported success.
FreshCalls(k) ==
    {t \in Threads :
        running[t].pc # "idle" /\ running[t].keyword = k /\ ~running[t].present}

FinishedCalls(k) == {t \in FreshCalls(k) : running[t].pc = "done"}

Winners(k) ==
    {t \in FinishedCalls(k) :
        running[t].ret.kind = "dict" /\ running[t].ret.value.success}

\* What concurrent addTrackedTopic calls with keyword k owe: at most one
\* success, a result dict with success=false and a message from every
\* other call, and, once all have finished, one row with the keyword if a
\* call succeeded and none otherwise.
ConcurrentAdds(k) ==
    /\ Cardinality(Winners(k)) <= 1
    /\ \A t \in FinishedCalls(k) \ Winners(k) :
          /\ running[t].ret.kind = "dict"
          /\ running[t].ret.value.success = FALSE
          /\ "message" \in DOMAIN running[t].ret.value
    /\ (FreshCalls(k) # {} /\ FinishedCalls(k) = FreshCalls(k))
       => Cardinality({i \in 1..Len(interesting_topics) :
                          interesting_topics[i].keyword = k})
              = IF Winners(k) # {} THEN 1 ELSE 0

\* C15: when two or more addTrackedTopic calls with the same keyword, not
\* yet tracked, run concurrently in any interleaving, at most one returns
\* success=true, every other one returns a structured success=false
\* result, and the store ends with exactly one row for the keyword if some
\* call succeeded and none otherwise.
C15_ConcurrentAdds ==
    \A k \in KeywordArgs : Cardinality(FreshCalls(k)) >= 2 => ConcurrentAdds(k)

\* The statement does hold for every keyword that can be encoded.
ConcurrentAddsOfEncodable == \A k \in Keywords : ConcurrentAdds(k)

\* Two calls with the same encodable keyword overlapped: one succeeded and
\* the other, which had connected before the row was committed, was turned
\* down as a duplicate.
ConcurrentAddsRaced ==
    \E k \in Keywords :
        /\ Cardinality(FinishedCalls(k)) >= 2
        /\ Winners(k) # {}
        /\ \E t \in FinishedCalls(k) \ Winners(k) :
              running[t].ret.value.message.fmt = DuplicateMessage


====
